---- MODULE Spec2Model ----
(***************************************************************************)
(* A model of the shell in src/app/main.py: the tokenizer                  *)
(* (tokenize_with_redirs), the redirection resolver (parse_redirections),  *)
(* the scoped stream redirection (redirected_streams), the REPL loop of    *)
(* main(), and the completion engine (completer, _complete_paths,          *)
(* _in_quotes).  Strings are sequences of one-character strings.           *)
(***************************************************************************)
EXTENDS Naturals, Sequences, FiniteSets, TLC

VARIABLES
    pc,          \* position of main()'s loop
    nread,       \* number of input() calls that returned a line
    line,        \* main(): line, after strip()
    tokens,      \* main(): tokens
    command,     \* main(): command
    parsed,      \* main(): argv, out_path, out_mode, err_path, err_mode
    body,        \* what runs inside the pending `with redirected_streams(...)`
    raised,      \* an exception is propagating out of the with-block
    fs,          \* regular files of the file system: path -> contents
    open_files,  \* file objects opened and not yet closed
    sys_stdout,  \* sys.stdout: "tty" or the name of a file object
    sys_stderr,  \* sys.stderr: "tty" or the name of a file object
    tty_out,     \* written to the terminal's stdout since the last prompt
    tty_err,     \* written to the terminal's stderr since the last prompt
    ran,         \* handlers and child processes run since the last prompt
    opens,       \* open() calls that succeeded since the last prompt
    fs0,         \* the files as they were at the last prompt
    t_line,      \* tokenizer harness: the raw line
    t_out,       \* tokenizer harness: the result, once computed
    path_exes,   \* setup_autocomplete(): the executables found at startup
    rl_line,     \* readline.get_line_buffer(), the cursor at its end
    begidx,      \* readline.get_begidx(), counted from 0
    text,        \* completer(): the word being completed
    state,       \* completer(): the attempt index of the next call
    returned     \* what the calls of completer() returned so far

vars == <<pc, nread, line, tokens, command, parsed, body, raised, fs,
          open_files, sys_stdout, sys_stderr, tty_out, tty_err, ran, opens,
          fs0, t_line, t_out, path_exes, rl_line, begidx, text, state, returned>>

compVars == <<path_exes, rl_line, begidx, text, state, returned>>

replVars == <<pc, nread, line, tokens, command, parsed, body, raised, fs,
              open_files, sys_stdout, sys_stderr, tty_out, tty_err, ran,
              opens, fs0>>

(***************************************************************************)
(* Bounds.                                                                 *)
(***************************************************************************)
MaxLines == 2    \* lines read in one session
MaxLen == 5      \* characters of a line given to the tokenizer on its own
MaxLineLen == 4  \* characters of the line of a one-line session

(***************************************************************************)
(* Characters.                                                             *)
(***************************************************************************)
BS == "\\"
DQ == "\""
SQ == "'"
GT == ">"
SP == " "

IsSpace(c) == c \in {" ", "\t", "\n"}

IsDigit(c) == c \in {"0", "1", "2", "3", "4", "5", "6", "7", "8", "9"}

\* the backquote character (a backquote cannot be written in a TLA+ string)
BQ == "backquote"

\* line 216 knowing the double quote only
DQEscapable_QuoteOnly == {"\""}

\* line 216
DQEscapable == {"\\", "\"", "$", BQ, "\n"}

None == <<>>

(***************************************************************************)
(* tokenize_with_redirs                                                    *)
(***************************************************************************)
\* flush_buf without its test of buf
flush_buf_Always(toks, buf) == Append(toks, buf)

\* lines 180-183
flush_buf(toks, buf) == IF buf # <<>> THEN Append(toks, buf) ELSE toks

AllDigits(buf) == \A k \in 1..Len(buf) : IsDigit(buf[k])

\* lines 188-190 keeping the backslash
EscapedChar_KeepsBackslash(buf, c) == Append(Append(buf, BS), c)

\* lines 188-190: the character after an unquoted backslash
EscapedChar(buf, c) == Append(buf, c)

\* lines 266-267: the line ended right after an unquoted backslash
TrailingEscape(buf, escape) == IF escape THEN Append(buf, BS) ELSE buf

\* line 263 forgetting the double quote
Unclosed_SingleOnly(in_single, in_double) == in_single

\* line 263
Unclosed(in_single, in_double) == in_single \/ in_double

RECURSIVE TokLoop(_, _, _, _, _, _, _)
TokLoop(ln, i, toks, buf, in_single, in_double, escape) ==
    IF i > Len(ln)
    THEN IF Unclosed(in_single, in_double)
         THEN [err |-> "unclosed quote", tokens |-> <<>>]
         ELSE [err |-> "", tokens |-> flush_buf(toks, TrailingEscape(buf, escape))]
    ELSE LET c == ln[i] IN
      IF escape
      THEN TokLoop(ln, i + 1, toks, EscapedChar(buf, c), in_single, in_double, FALSE)
      ELSE IF ~in_single /\ ~in_double /\ c = BS
      THEN TokLoop(ln, i + 1, toks, buf, in_single, in_double, TRUE)
      ELSE IF in_single
      THEN IF c = SQ
           THEN TokLoop(ln, i + 1, toks, buf, FALSE, in_double, escape)
           ELSE TokLoop(ln, i + 1, toks, Append(buf, c), in_single, in_double, escape)
      ELSE IF in_double
      THEN IF c = DQ
           THEN TokLoop(ln, i + 1, toks, buf, in_single, FALSE, escape)
           ELSE IF c = BS
           THEN IF i + 1 <= Len(ln) /\ ln[i + 1] \in DQEscapable
                THEN TokLoop(ln, i + 2, toks, Append(buf, ln[i + 1]),
                             in_single, in_double, escape)
                ELSE TokLoop(ln, i + 1, toks, Append(buf, BS),
                             in_single, in_double, escape)
           ELSE TokLoop(ln, i + 1, toks, Append(buf, c), in_single, in_double, escape)
      ELSE IF IsSpace(c)
      THEN TokLoop(ln, i + 1, flush_buf(toks, buf), <<>>, in_single, in_double, escape)
      ELSE IF c = SQ
      THEN TokLoop(ln, i + 1, toks, buf, TRUE, in_double, escape)
      ELSE IF c = DQ
      THEN TokLoop(ln, i + 1, toks, buf, in_single, TRUE, escape)
      ELSE IF c = GT
      THEN LET has_prefix == buf # <<>> /\ AllDigits(buf)
               toks1 == IF has_prefix THEN toks ELSE flush_buf(toks, buf)
               twice == i + 1 <= Len(ln) /\ ln[i + 1] = GT
               op == IF twice THEN <<GT, GT>> ELSE <<GT>>
           IN  TokLoop(ln, IF twice THEN i + 2 ELSE i + 1,
                       Append(toks1, IF has_prefix THEN buf \o op ELSE op),
                       <<>>, in_single, in_double, escape)
      ELSE TokLoop(ln, i + 1, toks, Append(buf, c), in_single, in_double, escape)

tokenize_with_redirs(ln) == TokLoop(ln, 1, <<>>, <<>>, FALSE, FALSE, FALSE)

(***************************************************************************)
(* str.strip()                                                             *)
(***************************************************************************)
RECURSIVE LStrip(_)
LStrip(s) == IF s # <<>> /\ IsSpace(Head(s)) THEN LStrip(Tail(s)) ELSE s

RECURSIVE RStrip(_)
RStrip(s) ==
    IF s # <<>> /\ IsSpace(s[Len(s)]) THEN RStrip(SubSeq(s, 1, Len(s) - 1)) ELSE s

Strip(s) == RStrip(LStrip(s))

(***************************************************************************)
(* parse_redirections                                                      *)
(***************************************************************************)
\* line 293 taking the appending operators too
OpOutW_AndAppend == {<<">">>, <<"1", ">">>, <<">", ">">>, <<"1", ">", ">">>}

\* line 293
OpOutW == {<<">">>, <<"1", ">">>}
OpOutA == {<<">", ">">>, <<"1", ">", ">">>}
OpErrW == {<<"2", ">">>}
OpErrA == {<<"2", ">", ">">>}

RECURSIVE RedirLoop(_, _, _, _, _, _, _)
RedirLoop(toks, i, argv, stdout_path, stdout_mode, stderr_path, stderr_mode) ==
    IF i > Len(toks)
    THEN [err |-> None, argv |-> argv,
          out_path |-> stdout_path, out_mode |-> stdout_mode,
          err_path |-> stderr_path, err_mode |-> stderr_mode]
    ELSE LET t == toks[i]
             missing == i + 1 > Len(toks)
             failure == [err |-> t, argv |-> <<>>,
                         out_path |-> None, out_mode |-> "w",
                         err_path |-> None, err_mode |-> "w"]
         IN
      IF t \in OpOutW
      THEN IF missing THEN failure
           ELSE RedirLoop(toks, i + 2, argv, toks[i + 1], "w", stderr_path, stderr_mode)
      ELSE IF t \in OpOutA
      THEN IF missing THEN failure
           ELSE RedirLoop(toks, i + 2, argv, toks[i + 1], "a", stderr_path, stderr_mode)
      ELSE IF t \in OpErrW
      THEN IF missing THEN failure
           ELSE RedirLoop(toks, i + 2, argv, stdout_path, stdout_mode, toks[i + 1], "w")
      ELSE IF t \in OpErrA
      THEN IF missing THEN failure
           ELSE RedirLoop(toks, i + 2, argv, stdout_path, stdout_mode, toks[i + 1], "a")
      ELSE RedirLoop(toks, i + 1, Append(argv, t),
                     stdout_path, stdout_mode, stderr_path, stderr_mode)

parse_redirections(argv_tokens) ==
    RedirLoop(argv_tokens, 1, <<>>, None, "w", None, "w")

(***************************************************************************)
(* Words of the program text.                                              *)
(***************************************************************************)
W_exit == <<"e", "x", "i", "t">>
W_echo == <<"e", "c", "h", "o">>
W_help == <<"h", "e", "l", "p">>
W_type == <<"t", "y", "p", "e">>
W_pwd == <<"p", "w", "d">>
W_cd == <<"c", "d">>
W_ls == <<"l", "s">>

builtin_commands == {W_exit, W_echo, W_help, W_type, W_pwd, W_cd, W_ls}

handlers == {W_echo, W_help, W_type, W_pwd, W_cd}

(***************************************************************************)
(* The environment: the search path holds ls; the working directory has   *)
(* no subdirectory and is the only place the user may create files in, and *)
(* no input changes it.                                                    *)
(***************************************************************************)
PathExes == {W_ls}

IsDirectory(p) == p \in {<<".">>, <<"/">>}

HasSlash(s) == \E k \in 1..Len(s) : s[k] = "/"

which(name) == IF name \in PathExes THEN <<"/", "b", "i", "n", "/">> \o name ELSE None

ResolveExe(cmd) == IF HasSlash(cmd) THEN cmd ELSE which(cmd)

(***************************************************************************)
(* Files.  open() creates or truncates in mode "w", creates or keeps in    *)
(* mode "a", and raises OSError on a directory and on a path outside the   *)
(* working directory.                                                      *)
(***************************************************************************)
NoFiles == [p \in {} |-> <<>>]

CanOpen(p) == ~IsDirectory(p) /\ ~HasSlash(p)

\* open() truncating whatever the mode
Opened_AlwaysTruncates(files, p, mode) ==
    [q \in DOMAIN files \cup {p} |-> IF q = p THEN <<>> ELSE files[q]]

Opened(files, p, mode) ==
    [q \in DOMAIN files \cup {p} |->
        IF q = p
        THEN IF mode = "a" /\ p \in DOMAIN files THEN files[p] ELSE <<>>
        ELSE files[q]]

Written(files, p, items) ==
    [q \in DOMAIN files \cup {p} |->
        IF q = p
        THEN (IF p \in DOMAIN files THEN files[p] ELSE <<>>) \o items
        ELSE files[q]]

FileObj(name, p, mode) == [name |-> name, path |-> p, mode |-> mode]

PathOf(objs, name) == (CHOOSE f \in objs : f.name = name).path

\* the files after `items` went to `stream` ("tty" or a file object's name)
WriteFs(files, objs, stream, items) ==
    IF stream = "tty" \/ items = <<>> THEN files
    ELSE Written(files, PathOf(objs, stream), items)

WriteTty(tty, stream, items) == IF stream = "tty" THEN tty \o items ELSE tty

Msg(m, arg) == [msg |-> m, arg |-> arg]

(***************************************************************************)
(* The builtin handlers: what each prints, and whether it raises.          *)
(***************************************************************************)
RECURSIVE Join(_)
Join(words) ==
    IF words = <<>> THEN <<>>
    ELSE IF Len(words) = 1 THEN words[1]
    ELSE words[1] \o <<SP>> \o Join(Tail(words))

Effect(out, err, raise) == [out |-> out, err |-> err, raise |-> raise]

cmd_echo(argv) == Effect(<<Msg("", Join(argv))>>, <<>>, FALSE)

cmd_help(argv) == Effect(<<Msg("Available commands: cd echo exit help ls pwd type", <<>>)>>,
                         <<>>, FALSE)

cmd_type(argv) ==
    IF argv = <<>> THEN Effect(<<>>, <<Msg("type: missing operand", <<>>)>>, FALSE)
    ELSE IF argv[1] \in builtin_commands
    THEN Effect(<<Msg("is a shell builtin", argv[1])>>, <<>>, FALSE)
    ELSE IF which(argv[1]) # None
    THEN Effect(<<Msg("is", which(argv[1]))>>, <<>>, FALSE)
    ELSE Effect(<<>>, <<Msg("not found", argv[1])>>, FALSE)

cmd_pwd(argv) == Effect(<<Msg("", <<".">>)>>, <<>>, FALSE)

\* os.chdir: "." succeeds, a regular file raises NotADirectoryError (not
\* caught), a missing path raises FileNotFoundError (caught and reported)
cmd_cd(argv, files) ==
    IF argv = <<>> THEN Effect(<<>>, <<Msg("cd: missing operand", <<>>)>>, FALSE)
    ELSE IF IsDirectory(argv[1]) THEN Effect(<<>>, <<>>, FALSE)
    ELSE IF argv[1] \in DOMAIN files THEN Effect(<<>>, <<>>, TRUE)
    ELSE Effect(<<>>, <<Msg("cd: No such file or directory", argv[1])>>, FALSE)

handler(cmd, argv, files) ==
    IF cmd = W_echo THEN cmd_echo(argv)
    ELSE IF cmd = W_help THEN cmd_help(argv)
    ELSE IF cmd = W_type THEN cmd_type(argv)
    ELSE IF cmd = W_pwd THEN cmd_pwd(argv)
    ELSE cmd_cd(argv, files)

SpawnBodies == {"permission denied", "failed to execute"}

\* what the body of a `with redirected_streams(...)` block does
BodyEffect(b, cmd, argv, files) ==
    IF b = "handler" THEN handler(cmd, argv, files)
    ELSE Effect(<<>>, <<Msg(b, cmd)>>, FALSE)

NoParse == [err |-> None, argv |-> <<>>, out_path |-> None, out_mode |-> "w",
            err_path |-> None, err_mode |-> "w"]

NoResult == [err |-> "not run", tokens |-> <<>>]

PromptText == Msg("$ ", <<>>)

\* line 412: f"parse error: {e}"
ParseError(e) == Msg("parse error: " \o e, <<>>)

\* line 290, printed by line 424
SyntaxError(t) == Msg("syntax error near unexpected token", t)

\* an exception nothing catches: the interpreter prints the traceback on
\* sys.stderr and the process exits
Traceback == <<Msg("Traceback (most recent call last)", <<>>)>>

(***************************************************************************)
(* Strings: str.startswith, str.endswith, str.replace(" ", "\\ "), and     *)
(* sorted(), which orders strings by code point.                           *)
(***************************************************************************)
startswith(s, p) == Len(p) <= Len(s) /\ SubSeq(s, 1, Len(p)) = p

endswith(s, p) == Len(p) <= Len(s) /\ SubSeq(s, Len(s) - Len(p) + 1, Len(s)) = p

RECURSIVE EscapeSpaces(_)
EscapeSpaces(s) ==
    IF s = <<>> THEN <<>>
    ELSE (IF Head(s) = SP THEN <<BS, SP>> ELSE <<Head(s)>>) \o EscapeSpaces(Tail(s))

\* the characters of names and paths, by increasing code point
CodeOrder == <<SP, DQ, SQ, "*", ".", "/", "2", GT, BS, "a", "c", "d", "e", "f",
               "h", "i", "l", "o", "p", "s", "t", "w", "x", "y", "~">>

CodePoint(c) == CHOOSE k \in 1..Len(CodeOrder) : CodeOrder[k] = c

RECURSIVE StrLess(_, _)
StrLess(a, b) ==
    IF b = <<>> THEN FALSE
    ELSE IF a = <<>> THEN TRUE
    ELSE IF Head(a) = Head(b) THEN StrLess(Tail(a), Tail(b))
    ELSE CodePoint(Head(a)) < CodePoint(Head(b))

\* sorted() taking the greatest first
RECURSIVE sorted_Descending(_)
sorted_Descending(S) ==
    IF S = {} THEN <<>>
    ELSE LET m == CHOOSE x \in S : \A y \in S \ {x} : StrLess(y, x)
         IN  <<m>> \o sorted_Descending(S \ {m})

RECURSIVE sorted(_)
sorted(S) ==
    IF S = {} THEN <<>>
    ELSE LET m == CHOOSE x \in S : \A y \in S \ {x} : StrLess(x, y)
         IN  <<m>> \o sorted(S \ {m})

(***************************************************************************)
(* _in_quotes and _escape_if_needed                                        *)
(***************************************************************************)
\* lines 46-58, over the characters of line[:idx]
RECURSIVE InQuotesLoop(_, _, _, _, _)
InQuotesLoop(s, i, in_single, in_double, escape) ==
    IF i > Len(s)
    THEN [in_single |-> in_single, in_double |-> in_double]
    ELSE LET c == s[i] IN
      IF escape
      THEN InQuotesLoop(s, i + 1, in_single, in_double, FALSE)
      ELSE IF ~in_single /\ c = BS
      THEN InQuotesLoop(s, i + 1, in_single, in_double, TRUE)
      ELSE IF c = SQ /\ ~in_double
      THEN InQuotesLoop(s, i + 1, ~in_single, in_double, escape)
      ELSE IF c = DQ /\ ~in_single
      THEN InQuotesLoop(s, i + 1, in_single, ~in_double, escape)
      ELSE InQuotesLoop(s, i + 1, in_single, in_double, escape)

\* line 46 scanning the whole line
UpTo_WholeLine(ln, idx) == ln

\* line[:idx]
UpTo(ln, idx) == SubSeq(ln, 1, IF idx < Len(ln) THEN idx ELSE Len(ln))

\* lines 38-63: (in_quotes, quote_char_or_None)
in_quotes(ln, idx) ==
    LET r == InQuotesLoop(UpTo(ln, idx), 1, FALSE, FALSE, FALSE) IN
    IF r.in_single THEN <<TRUE, SQ>>
    ELSE IF r.in_double THEN <<TRUE, DQ>>
    ELSE <<FALSE, None>>

\* lines 66-71
escape_if_needed(s, ln, idx) == IF in_quotes(ln, idx)[1] THEN s ELSE EscapeSpaces(s)

(***************************************************************************)
(* The file system the path completion looks at: the root holds the        *)
(* directories d and e; d is both the home and the working directory and   *)
(* holds the file c, the file `d e`, the hidden file .e and the directory   *)
(* e; /e holds the file c.  A node is the sequence of the names leading to  *)
(* it from the root.                                                       *)
(***************************************************************************)
N_c == <<"c">>
N_d == <<"d">>
N_e == <<"e">>

Directories == {<<>>, <<N_d>>, <<N_e>>, <<N_d, N_e>>}

RegularFiles == {<<N_d, N_c>>, <<N_d, <<"d", SP, "e">>>>, <<N_d, <<".", "e">>>>,
                 <<N_e, N_c>>}

Nodes == Directories \cup RegularFiles

getcwd == <<N_d>>

\* os.path.expanduser("~")
home == <<"/", "d">>

\* no node
Missing == << <<>> >>

\* the names between the slashes of a path
RECURSIVE SplitSlash(_, _, _)
SplitSlash(s, cur, acc) ==
    IF s = <<>> THEN (IF cur = <<>> THEN acc ELSE Append(acc, cur))
    ELSE IF Head(s) = "/"
    THEN SplitSlash(Tail(s), <<>>, IF cur = <<>> THEN acc ELSE Append(acc, cur))
    ELSE SplitSlash(Tail(s), Append(cur, Head(s)), acc)

Components(s) == SplitSlash(s, <<>>, <<>>)

Parent(node) == IF node = <<>> THEN <<>> ELSE SubSeq(node, 1, Len(node) - 1)

\* the kernel's path walk: every step but the last is taken from a directory
RECURSIVE Walk(_, _)
Walk(cur, comps) ==
    IF comps = <<>> THEN cur
    ELSE IF cur \notin Directories THEN Missing
    ELSE IF Head(comps) = <<".">> THEN Walk(cur, Tail(comps))
    ELSE IF Head(comps) = <<".", ".">> THEN Walk(Parent(cur), Tail(comps))
    ELSE IF Append(cur, Head(comps)) \in Nodes
    THEN Walk(Append(cur, Head(comps)), Tail(comps))
    ELSE Missing

isabs(p) == p # <<>> /\ p[1] = "/"

\* the node a path names; a path ending in a slash names directories only
Resolve(p) ==
    LET n == Walk(IF isabs(p) THEN <<>> ELSE getcwd, Components(p)) IN
    IF p # <<>> /\ p[Len(p)] = "/" /\ n \notin Directories THEN Missing ELSE n

isdir(p) == p # <<>> /\ Resolve(p) \in Directories

\* os.listdir, an error giving no name; "" is the working directory
listdir(p) ==
    LET n == IF p = <<>> THEN getcwd ELSE Resolve(p) IN
    IF n \in Directories
    THEN {m[Len(m)] : m \in {x \in Nodes : Len(x) = Len(n) + 1 /\ Parent(x) = n}}
    ELSE {}

(***************************************************************************)
(* os.path and glob, as _complete_paths uses them.                         *)
(***************************************************************************)
RECURSIVE LastSlash(_, _)
LastSlash(p, i) == IF i = 0 \/ p[i] = "/" THEN i ELSE LastSlash(p, i - 1)

RECURSIVE RStripSlash(_)
RStripSlash(p) ==
    IF p # <<>> /\ p[Len(p)] = "/" THEN RStripSlash(SubSeq(p, 1, Len(p) - 1)) ELSE p

\* os.path.split: <<head, tail>>, the head losing its trailing slashes unless
\* it is made of slashes only
split(p) ==
    LET i == LastSlash(p, Len(p))
        h == SubSeq(p, 1, i)
        t == SubSeq(p, i + 1, Len(p))
    IN  <<IF RStripSlash(h) = <<>> THEN h ELSE RStripSlash(h), t>>

\* os.path.join(head, name) for a name without a slash
join(h, name) ==
    IF h = <<>> THEN name
    ELSE IF h[Len(h)] = "/" THEN h \o name
    ELSE h \o <<"/">> \o name

\* os.path.expanduser: no user has a name made of the characters at hand
expanduser(p) ==
    IF p = <<"~">> THEN home
    ELSE IF startswith(p, <<"~", "/">>) THEN home \o Tail(p)
    ELSE p

\* glob.glob of a pattern that ends in "*" and has no other wildcard: the
\* names of the pattern's directory that start as its last part does, the
\* hidden ones only when that part starts with a dot
glob(pattern) ==
    LET sp == split(pattern)
        pfx == SubSeq(sp[2], 1, Len(sp[2]) - 1)
        names == {n \in listdir(sp[1]) :
                     /\ startswith(n, pfx)
                     /\ n[1] = "." => startswith(pfx, <<".">>)}
    IN  {join(sp[1], n) : n \in names}

\* os.path.normpath on the names of an absolute path
RECURSIVE NormLoop(_, _)
NormLoop(comps, acc) ==
    IF comps = <<>> THEN acc
    ELSE IF Head(comps) = <<".">> THEN NormLoop(Tail(comps), acc)
    ELSE IF Head(comps) = <<".", ".">> THEN NormLoop(Tail(comps), Parent(acc))
    ELSE NormLoop(Tail(comps), Append(acc, Head(comps)))

RECURSIVE CommonLen(_, _)
CommonLen(a, b) ==
    IF a = <<>> \/ b = <<>> \/ Head(a) # Head(b) THEN 0
    ELSE 1 + CommonLen(Tail(a), Tail(b))

RECURSIVE JoinSlash(_)
JoinSlash(comps) ==
    IF comps = <<>> THEN <<>>
    ELSE IF Len(comps) = 1 THEN comps[1]
    ELSE comps[1] \o <<"/">> \o JoinSlash(Tail(comps))

\* os.path.relpath(p, os.getcwd())
relpath(p) ==
    LET target == NormLoop(Components(p), IF isabs(p) THEN <<>> ELSE getcwd)
        k == CommonLen(getcwd, target)
        ups == [j \in 1..(Len(getcwd) - k) |-> <<".", ".">>]
        rel == ups \o SubSeq(target, k + 1, Len(target))
    IN  IF rel = <<>> THEN <<".">> ELSE JoinSlash(rel)

(***************************************************************************)
(* _complete_paths                                                         *)
(***************************************************************************)
\* lines 94-106: how one match is displayed
Display(typed, m) ==
    LET typed_starts_tilde == startswith(typed, <<"~">>)
        d1 == IF isdir(m) /\ ~endswith(m, <<"/">>) THEN m \o <<"/">> ELSE m
        d2 == IF typed_starts_tilde /\ startswith(d1, home)
              THEN <<"~">> \o SubSeq(d1, Len(home) + 1, Len(d1))
              ELSE d1
    IN  IF ~typed_starts_tilde /\ ~isabs(typed) THEN relpath(d2) ELSE d2

\* lines 74-110
complete_paths(txt, ln, idx) ==
    LET matches == sorted(glob(expanduser(txt) \o <<"*">>))
    IN  [k \in 1..Len(matches) |-> escape_if_needed(Display(txt, matches[k]), ln, idx)]

(***************************************************************************)
(* completer                                                               *)
(***************************************************************************)
\* line 133
IsPathPrefix(txt) ==
    \E p \in {<<"/">>, <<".", "/">>, <<".", ".", "/">>, <<"~">>} : startswith(txt, p)

\* lines 136-137
PoolCandidates(txt, ln, idx) ==
    LET pool == sorted(builtin_commands \cup path_exes)
        hits == SelectSeq(pool, LAMBDA x : startswith(x, txt))
    IN  [k \in 1..Len(hits) |-> escape_if_needed(hits[k], ln, idx)]

\* lines 139-140
SoleCommand(cands) ==
    IF Len(cands) = 1 /\ ~endswith(cands[1], <<SP>>)
    THEN <<cands[1] \o <<SP>>>> ELSE cands

\* lines 145-148
SoleArgument(cands) ==
    IF Len(cands) = 1 /\ ~endswith(cands[1], <<"/">>)
    THEN <<cands[1] \o <<SP>>>> ELSE cands

\* line 130
completing_command(ln, idx) == Strip(UpTo(ln, idx)) = <<>>

\* lines 129-148
candidates(txt, ln, idx) ==
    IF completing_command(ln, idx)
    THEN SoleCommand(IF IsPathPrefix(txt)
                     THEN complete_paths(txt, ln, idx)
                     ELSE PoolCandidates(txt, ln, idx))
    ELSE SoleArgument(complete_paths(txt, ln, idx))

\* line 150
completer(txt, st, ln, idx) ==
    LET c == candidates(txt, ln, idx) IN
    IF st < Len(c) THEN c[st + 1] ELSE None

(***************************************************************************)
(* A completion: readline hands completer() the word that ends at the      *)
(* cursor, calling it with state 0, 1, 2, ... until it returns None.  The  *)
(* word starts after the last of the delimiters of line 123.               *)
(***************************************************************************)
MaxCompLen == 3  \* characters of the line buffer at a completion

CompAlphabet == {"c", "d", "e", "/", ".", "~", SP, SQ, BS}

CompLines == UNION {[1..n -> CompAlphabet] : n \in 0..MaxCompLen}

\* executables the search path may hold at startup
ExeNames == {<<"c", "c">>, <<"d", SP, "e">>, <<"d", SP>>}

completer_delims == {" ", "\t", "\n", ">", "<"}

RECURSIVE WordStart(_, _)
WordStart(ln, i) ==
    IF i = 0 \/ ln[i] \in completer_delims THEN i ELSE WordStart(ln, i - 1)

NoCompletion ==
    /\ path_exes = PathExes
    /\ rl_line = <<>>
    /\ begidx = 0
    /\ text = <<>>
    /\ state = 0
    /\ returned = <<>>

InitComp ==
    /\ path_exes \in SUBSET ExeNames
    /\ rl_line \in CompLines
    /\ begidx = WordStart(rl_line, Len(rl_line))
    /\ text = SubSeq(rl_line, begidx + 1, Len(rl_line))
    /\ state = 0
    /\ returned = <<>>
    /\ t_line = <<>>
    /\ t_out = NoResult
    /\ pc = "completion"
    /\ nread = 0
    /\ line = <<>>
    /\ tokens = <<>>
    /\ command = <<>>
    /\ parsed = NoParse
    /\ body = ""
    /\ raised = FALSE
    /\ fs = NoFiles
    /\ open_files = {}
    /\ sys_stdout = "tty"
    /\ sys_stderr = "tty"
    /\ tty_out = <<>>
    /\ tty_err = <<>>
    /\ ran = <<>>
    /\ opens = <<>>
    /\ fs0 = NoFiles

\* one call of completer(text, state), lines 125-150
CompleterCall ==
    /\ pc = "completion"
    /\ IF returned = <<>> THEN TRUE ELSE returned[Len(returned)] # None
    /\ returned' = Append(returned, completer(text, state, rl_line, begidx))
    /\ state' = state + 1
    /\ UNCHANGED <<path_exes, rl_line, begidx, text, t_line, t_out, replVars>>

NextComp == CompleterCall

SpecComp == InitComp /\ [][NextComp]_vars

(***************************************************************************)
(* The lines a session may read: a command word, an argument, one or two   *)
(* redirections, a redirection before the command word, an argument after  *)
(* a redirection, blank lines.                                             *)
(***************************************************************************)
W_f == <<"f">>
W_dot == <<".">>

NonEmpty(s) == s # <<>>

JoinSp(parts) == Join(SelectSeq(parts, NonEmpty))

CmdParts == {<<>>, W_echo, W_cd, W_exit, W_ls, W_f}

ArgParts == {<<>>, W_f, <<DQ, DQ>>, <<DQ, "f">>, <<SQ, "f">>}

RedirOps == {<<">">>, <<">", ">">>, <<"1", ">">>, <<"1", ">", ">">>,
             <<"2", ">">>, <<"2", ">", ">">>}

RedirParts ==
    {<<>>, <<">">>}
    \cup {JoinSp(<<op, W_f>>) : op \in RedirOps}
    \cup {JoinSp(<<op, W_dot>>) : op \in {<<">">>, <<"2", ">">>}}

Redir2Parts == {<<>>, JoinSp(<<<<"2", ">">>, W_dot>>), JoinSp(<<<<"2", ">">>, W_f>>)}

PreParts == {JoinSp(<<<<">">>, W_f>>), <<">">>}

InputLines ==
    {JoinSp(<<c, a, r, r2>>) :
        c \in CmdParts, a \in ArgParts, r \in RedirParts, r2 \in Redir2Parts}
    \cup {JoinSp(<<pre, c, a>>) : pre \in PreParts, c \in CmdParts, a \in ArgParts}
    \cup {JoinSp(<<c, W_f, r, W_f>>) : c \in CmdParts, r \in RedirParts}
    \cup {<<SP>>, <<SP>> \o W_echo \o <<SP>>}

(***************************************************************************)
(* main(): the read-tokenize-resolve-dispatch loop.                        *)
(***************************************************************************)
Init ==
    /\ pc = "prompt"
    /\ nread = 0
    /\ line = <<>>
    /\ tokens = <<>>
    /\ command = <<>>
    /\ parsed = NoParse
    /\ body = ""
    /\ raised = FALSE
    /\ fs = NoFiles
    /\ open_files = {}
    /\ sys_stdout = "tty"
    /\ sys_stderr = "tty"
    /\ tty_out = <<>>
    /\ tty_err = <<>>
    /\ ran = <<>>
    /\ opens = <<>>
    /\ fs0 = NoFiles
    /\ NoCompletion
    /\ t_line = <<>>
    /\ t_out = NoResult

\* line 400: the prompt is written; the record of the previous line ends
\* here (the locals it clears are all assigned again before they are read)
Prompt ==
    /\ pc = "prompt"
    /\ pc' = "read"
    /\ tty_out' = WriteTty(<<>>, sys_stdout, <<PromptText>>)
    /\ tty_err' = <<>>
    /\ fs' = WriteFs(fs, open_files, sys_stdout, <<PromptText>>)
    /\ fs0' = fs'
    /\ line' = <<>>
    /\ tokens' = <<>>
    /\ command' = <<>>
    /\ parsed' = NoParse
    /\ body' = ""
    /\ ran' = <<>>
    /\ opens' = <<>>
    /\ UNCHANGED <<nread, raised, open_files, sys_stdout, sys_stderr, t_line, t_out, compVars>>

\* lines 401-403: input() raises EOFError
ReadEOF ==
    /\ pc = "read"
    /\ pc' = "done"
    /\ UNCHANGED <<nread, line, tokens, command, parsed, body, raised, fs,
                   open_files, sys_stdout, sys_stderr, tty_out, tty_err, ran,
                   opens, fs0, t_line, t_out, compVars>>

\* lines 401, 405-407: input() returns a line; it is stripped; blank: continue
ReadLine ==
    /\ pc = "read"
    /\ nread < MaxLines
    /\ \E raw \in InputLines :
        /\ line' = Strip(raw)
        /\ pc' = IF line' = <<>> THEN "prompt" ELSE "tokenize"
    /\ nread' = nread + 1
    /\ UNCHANGED <<tokens, command, parsed, body, raised, fs, open_files,
                   sys_stdout, sys_stderr, tty_out, tty_err, ran, opens, fs0,
                   t_line, t_out, compVars>>

\* lines 409-413
Tokenize ==
    /\ pc = "tokenize"
    /\ LET r == tokenize_with_redirs(line)
           m == <<ParseError(r.err)>>
       IN
        IF r.err # ""
        THEN /\ pc' = "prompt"
             /\ tokens' = tokens
             /\ tty_err' = WriteTty(tty_err, sys_stderr, m)
             /\ fs' = WriteFs(fs, open_files, sys_stderr, m)
        ELSE /\ pc' = "command"
             /\ tokens' = r.tokens
             /\ UNCHANGED <<tty_err, fs>>
    /\ UNCHANGED <<nread, line, command, parsed, body, raised, open_files,
                   sys_stdout, sys_stderr, tty_out, ran, opens, fs0, t_line, t_out, compVars>>

\* lines 415-419: tokens[0] raises IndexError on an empty list, and nothing
\* catches it
SplitCommand ==
    /\ pc = "command"
    /\ IF tokens = <<>>
       THEN /\ pc' = "crashed"
            /\ raised' = TRUE
            /\ command' = command
            /\ tty_err' = WriteTty(tty_err, sys_stderr, Traceback)
       ELSE /\ command' = tokens[1]
            /\ pc' = IF command' = W_exit THEN "done" ELSE "parse"
            /\ raised' = raised
            /\ tty_err' = tty_err
    /\ UNCHANGED <<nread, line, tokens, parsed, body, fs, open_files,
                   sys_stdout, sys_stderr, tty_out, ran, opens, fs0,
                   t_line, t_out, compVars>>

raw_argv == Tail(tokens)

\* lines 421-425
ParseRedirs ==
    /\ pc = "parse"
    /\ LET p == parse_redirections(raw_argv)
           m == <<SyntaxError(p.err)>>
       IN
        IF p.err # None
        THEN /\ pc' = "prompt"
             /\ parsed' = parsed
             /\ tty_err' = WriteTty(tty_err, sys_stderr, m)
             /\ fs' = WriteFs(fs, open_files, sys_stderr, m)
        ELSE /\ pc' = "dispatch"
             /\ parsed' = p
             /\ UNCHANGED <<tty_err, fs>>
    /\ UNCHANGED <<nread, line, tokens, command, body, raised, open_files,
                   sys_stdout, sys_stderr, tty_out, ran, opens, fs0, t_line, t_out, compVars>>

\* lines 427-441: a handler, or no executable, runs inside redirected_streams
Dispatch ==
    /\ pc = "dispatch"
    /\ IF command \in handlers
       THEN body' = "handler" /\ pc' = "with_enter"
       ELSE IF ResolveExe(command) = None
       THEN body' = "command not found" /\ pc' = "with_enter"
       ELSE body' = body /\ pc' = "ext_open"
    /\ UNCHANGED <<nread, line, tokens, command, parsed, raised, fs, open_files,
                   sys_stdout, sys_stderr, tty_out, tty_err, ran, opens, fs0,
                   t_line, t_out, compVars>>

(***************************************************************************)
(* redirected_streams, and the two open() calls of the external branch.    *)
(***************************************************************************)
\* out_f = open(...) if out_path; err_f = open(...) if err_path: the second
\* open is not reached when the first raises
OpenBoth(files, objs, outName, errName, p) ==
    LET wantOut == p.out_path # None
        okOut == ~wantOut \/ CanOpen(p.out_path)
        gotOut == wantOut /\ okOut
        fs1 == IF gotOut THEN Opened(files, p.out_path, p.out_mode) ELSE files
        objs1 == IF gotOut
                 THEN objs \cup {FileObj(outName, p.out_path, p.out_mode)}
                 ELSE objs
        wantErr == okOut /\ p.err_path # None
        okErr == ~wantErr \/ CanOpen(p.err_path)
        gotErr == wantErr /\ okErr
        fs2 == IF gotErr THEN Opened(fs1, p.err_path, p.err_mode) ELSE fs1
        objs2 == IF gotErr
                 THEN objs1 \cup {FileObj(errName, p.err_path, p.err_mode)}
                 ELSE objs1
    IN  [ok |-> okOut /\ okErr, fs |-> fs2, objs |-> objs2,
         opened |-> (IF gotOut THEN <<p.out_path>> ELSE <<>>)
                    \o (IF gotErr THEN <<p.err_path>> ELSE <<>>)]

CloseBoth(objs, outName, errName) == {f \in objs : f.name \notin {outName, errName}}

\* where an exception that leaves the with-block goes: through the finally
\* of the external branch when the block is inside its except clauses
AfterWith(b, exc) ==
    IF b \in SpawnBodies THEN "ext_finally"
    ELSE IF exc THEN "crashed" ELSE "prompt"

\* lines 324-329: the two files are opened, then sys.stdout/sys.stderr are
\* swapped for them
EnterRedirect ==
    /\ pc = "with_enter"
    /\ LET r == OpenBoth(fs, open_files, "rs.out_f", "rs.err_f", parsed) IN
        /\ fs' = r.fs
        /\ open_files' = r.objs
        /\ opens' = opens \o r.opened
        /\ IF r.ok
           THEN /\ sys_stdout' = IF parsed.out_path # None THEN "rs.out_f" ELSE sys_stdout
                /\ sys_stderr' = IF parsed.err_path # None THEN "rs.err_f" ELSE sys_stderr
                /\ pc' = "with_body"
                /\ raised' = raised
                /\ tty_err' = tty_err
           ELSE /\ pc' = AfterWith(body, TRUE)
                /\ raised' = TRUE
                /\ tty_err' = IF pc' = "crashed"
                              THEN WriteTty(tty_err, sys_stderr, Traceback)
                              ELSE tty_err
                /\ UNCHANGED <<sys_stdout, sys_stderr>>
    /\ UNCHANGED <<nread, line, tokens, command, parsed, body, tty_out, ran, fs0,
                   t_line, t_out, compVars>>

\* line 330 and the block's body: lines 430, 440, 454, 457
RunBody ==
    /\ pc = "with_body"
    /\ LET eff == BodyEffect(body, command, parsed.argv, fs) IN
        /\ tty_out' = WriteTty(tty_out, sys_stdout, eff.out)
        /\ tty_err' = WriteTty(tty_err, sys_stderr, eff.err)
        /\ fs' = WriteFs(WriteFs(fs, open_files, sys_stdout, eff.out),
                         open_files, sys_stderr, eff.err)
        /\ raised' = eff.raise
    /\ ran' = IF body = "handler"
              THEN Append(ran, [kind |-> "builtin", command |-> command,
                                argv |-> parsed.argv])
              ELSE ran
    /\ pc' = "with_exit"
    /\ UNCHANGED <<nread, line, tokens, command, parsed, body, open_files,
                   sys_stdout, sys_stderr, opens, fs0, t_line, t_out, compVars>>

\* lines 328-335: the streams are restored (redirected_streams is never
\* nested, so the saved streams are the terminal's), the files are closed
ExitRedirect ==
    /\ pc = "with_exit"
    /\ sys_stdout' = "tty"
    /\ sys_stderr' = "tty"
    /\ open_files' = CloseBoth(open_files, "rs.out_f", "rs.err_f")
    /\ pc' = AfterWith(body, raised)
    /\ tty_err' = IF pc' = "crashed"
                  THEN WriteTty(tty_err, sys_stderr', Traceback)
                  ELSE tty_err
    /\ UNCHANGED <<nread, line, tokens, command, parsed, body, raised, fs,
                   tty_out, ran, opens, fs0, t_line, t_out, compVars>>

\* lines 443-444
ExtOpen ==
    /\ pc = "ext_open"
    /\ LET r == OpenBoth(fs, open_files, "main.out_f", "main.err_f", parsed) IN
        /\ fs' = r.fs
        /\ open_files' = r.objs
        /\ opens' = opens \o r.opened
        /\ pc' = IF r.ok THEN "spawn" ELSE "crashed"
        /\ raised' = IF r.ok THEN raised ELSE TRUE
        /\ tty_err' = IF r.ok THEN tty_err
                      ELSE WriteTty(tty_err, sys_stderr, Traceback)
    /\ UNCHANGED <<nread, line, tokens, command, parsed, body, sys_stdout,
                   sys_stderr, tty_out, ran, fs0, t_line, t_out, compVars>>

ChildOutput == <<Msg("child output", <<>>)>>

\* lines 445-451: the child runs to its end, writing to the file given as
\* its stdout or to the terminal
SpawnOk ==
    /\ pc = "spawn"
    /\ \E wrote \in BOOLEAN :
        LET items == IF wrote THEN ChildOutput ELSE <<>>
            dest == IF parsed.out_path # None THEN "main.out_f" ELSE "tty"
        IN  /\ fs' = WriteFs(fs, open_files, dest, items)
            /\ tty_out' = WriteTty(tty_out, dest, items)
    /\ ran' = Append(ran, [kind |-> "child", command |-> command, argv |-> parsed.argv])
    /\ pc' = "ext_finally"
    /\ UNCHANGED <<nread, line, tokens, command, parsed, body, raised, open_files,
                   sys_stdout, sys_stderr, tty_err, opens, fs0, t_line, t_out, compVars>>

\* lines 452-457: subprocess.run raises PermissionError or another OSError
SpawnFails ==
    /\ pc = "spawn"
    /\ \E b \in SpawnBodies : body' = b
    /\ pc' = "with_enter"
    /\ UNCHANGED <<nread, line, tokens, command, parsed, raised, fs, open_files,
                   sys_stdout, sys_stderr, tty_out, tty_err, ran, opens, fs0,
                   t_line, t_out, compVars>>

\* lines 458-462
ExtFinally ==
    /\ pc = "ext_finally"
    /\ open_files' = CloseBoth(open_files, "main.out_f", "main.err_f")
    /\ pc' = IF raised THEN "crashed" ELSE "prompt"
    /\ tty_err' = IF raised THEN WriteTty(tty_err, sys_stderr, Traceback) ELSE tty_err
    /\ UNCHANGED <<nread, line, tokens, command, parsed, body, raised, fs,
                   sys_stdout, sys_stderr, tty_out, ran, opens, fs0, t_line, t_out, compVars>>

Next ==
    \/ Prompt
    \/ ReadEOF
    \/ ReadLine
    \/ Tokenize
    \/ SplitCommand
    \/ ParseRedirs
    \/ Dispatch
    \/ EnterRedirect
    \/ RunBody
    \/ ExitRedirect
    \/ ExtOpen
    \/ SpawnOk
    \/ SpawnFails
    \/ ExtFinally

Spec == Init /\ [][Next]_vars

(***************************************************************************)
(* The tokenizer on its own: every line of at most MaxLen characters.      *)
(***************************************************************************)
TokAlphabet == {"a", SP, SQ, DQ, BS, GT, "1", "2", "/"}

TokLines == UNION {[1..n -> TokAlphabet] : n \in 0..MaxLen}

InitTok ==
    /\ t_line \in TokLines
    /\ t_out = NoResult
    /\ pc = "harness"
    /\ nread = 0
    /\ line = <<>>
    /\ tokens = <<>>
    /\ command = <<>>
    /\ parsed = NoParse
    /\ body = ""
    /\ raised = FALSE
    /\ fs = NoFiles
    /\ open_files = {}
    /\ sys_stdout = "tty"
    /\ sys_stderr = "tty"
    /\ tty_out = <<>>
    /\ tty_err = <<>>
    /\ ran = <<>>
    /\ opens = <<>>
    /\ fs0 = NoFiles
    /\ NoCompletion

TokRun ==
    /\ t_out = NoResult
    /\ t_out' = tokenize_with_redirs(t_line)
    /\ UNCHANGED <<t_line, replVars, compVars>>

NextTok == TokRun

SpecTok == InitTok /\ [][NextTok]_vars

(***************************************************************************)
(* The tokenizer on the characters that matter to quoting.                  *)
(***************************************************************************)
DqAlphabet == {"a", SQ, DQ, BS, "$", BQ, "\n"}

DqLines == UNION {[1..n -> DqAlphabet] : n \in 0..MaxLen}

InitDq ==
    /\ t_line \in DqLines
    /\ t_out = NoResult
    /\ pc = "harness"
    /\ nread = 0
    /\ line = <<>>
    /\ tokens = <<>>
    /\ command = <<>>
    /\ parsed = NoParse
    /\ body = ""
    /\ raised = FALSE
    /\ fs = NoFiles
    /\ open_files = {}
    /\ sys_stdout = "tty"
    /\ sys_stderr = "tty"
    /\ tty_out = <<>>
    /\ tty_err = <<>>
    /\ ran = <<>>
    /\ opens = <<>>
    /\ fs0 = NoFiles
    /\ NoCompletion

SpecDq == InitDq /\ [][NextTok]_vars

(***************************************************************************)
(* A session that reads one line: every line of at most MaxLineLen         *)
(* characters, from the prompt to the next prompt or the end.              *)
(***************************************************************************)
ShortLines == UNION {[1..n -> TokAlphabet] : n \in 0..MaxLineLen}

InitLine ==
    /\ t_line \in ShortLines
    /\ t_out = NoResult
    /\ pc = "read"
    /\ nread = 0
    /\ line = <<>>
    /\ tokens = <<>>
    /\ command = <<>>
    /\ parsed = NoParse
    /\ body = ""
    /\ raised = FALSE
    /\ fs = NoFiles
    /\ open_files = {}
    /\ sys_stdout = "tty"
    /\ sys_stderr = "tty"
    /\ tty_out = <<PromptText>>
    /\ tty_err = <<>>
    /\ ran = <<>>
    /\ opens = <<>>
    /\ fs0 = NoFiles
    /\ NoCompletion

\* lines 401, 405-407, for the line t_line
ReadGiven ==
    /\ pc = "read"
    /\ nread = 0
    /\ line' = Strip(t_line)
    /\ pc' = IF line' = <<>> THEN "prompt" ELSE "tokenize"
    /\ nread' = 1
    /\ UNCHANGED <<tokens, command, parsed, body, raised, fs, open_files,
                   sys_stdout, sys_stderr, tty_out, tty_err, ran, opens, fs0,
                   t_line, t_out, compVars>>

NextLine ==
    \/ ReadGiven
    \/ Tokenize
    \/ SplitCommand
    \/ ParseRedirs
    \/ Dispatch
    \/ EnterRedirect
    \/ RunBody
    \/ ExitRedirect
    \/ ExtOpen
    \/ SpawnOk
    \/ SpawnFails
    \/ ExtFinally

SpecLine == InitLine /\ [][NextLine]_vars

(***************************************************************************)
(* parse_redirections on its own: main() at line 421, the command word     *)
(* echo followed by every sequence of at most MaxToks operators and words. *)
(***************************************************************************)
MaxToks == 4  \* tokens after the command word

RedirTokens == RedirOps \cup {<<"f">>, <<"g">>}

RawArgvs == UNION {[1..n -> RedirTokens] : n \in 0..MaxToks}

InitParse ==
    /\ pc = "parse"
    /\ tokens \in {<<W_echo>> \o raw : raw \in RawArgvs}
    /\ command = W_echo
    /\ line = Join(tokens)
    /\ nread = 1
    /\ parsed = NoParse
    /\ body = ""
    /\ raised = FALSE
    /\ fs = NoFiles
    /\ open_files = {}
    /\ sys_stdout = "tty"
    /\ sys_stderr = "tty"
    /\ tty_out = <<PromptText>>
    /\ tty_err = <<>>
    /\ ran = <<>>
    /\ opens = <<>>
    /\ fs0 = NoFiles
    /\ t_line = <<>>
    /\ t_out = NoResult
    /\ NoCompletion

NextParse == ParseRedirs

SpecParse == InitParse /\ [][NextParse]_vars

(***************************************************************************)
(* What the claims speak of, stated on the tokens of a line.               *)
(***************************************************************************)
RedirectionOperators ==
    {<<">">>, <<">", ">">>, <<"1", ">">>, <<"1", ">", ">">>,
     <<"2", ">">>, <<"2", ">", ">">>}

\* the words of a line that are neither an operator nor an operator's target
RECURSIVE WordsOf(_)
WordsOf(toks) ==
    IF toks = <<>> THEN <<>>
    ELSE IF Head(toks) \in RedirectionOperators
    THEN IF Len(toks) = 1 THEN <<>> ELSE WordsOf(Tail(Tail(toks)))
    ELSE <<Head(toks)>> \o WordsOf(Tail(toks))

\* some operator of the line has no token after it
RECURSIVE DanglingOperator(_)
DanglingOperator(toks) ==
    IF toks = <<>> THEN FALSE
    ELSE IF Head(toks) \in RedirectionOperators
    THEN Len(toks) = 1 \/ DanglingOperator(Tail(Tail(toks)))
    ELSE DanglingOperator(Tail(toks))

\* the handling of the line read last is over
Finished == pc \in {"prompt", "done", "crashed"}

\* nothing was run, opened or written for the line
NothingDone == ran = <<>> /\ opens = <<>> /\ fs = fs0

(***************************************************************************)
(* C1: the session ends only at end-of-input or at a line whose command    *)
(* word is exit; every other line, whatever error it causes, leads to the  *)
(* next prompt.  Fails: a line that yields no tokens, and a redirect       *)
(* target that cannot be opened, end the session with a traceback.         *)
(***************************************************************************)
C1_EndsOnlyOnEofOrExit ==
    pc \in {"done", "crashed"} => pc = "done" /\ (line = <<>> \/ command = W_exit)

(***************************************************************************)
(* C2: wherever the redirections stand on the line, the command is the     *)
(* first non-redirection word and its arguments are the other              *)
(* non-redirection words in order.  Fails: the command is the first token, *)
(* whatever it is.                                                         *)
(***************************************************************************)
C2_CommandIsFirstWord ==
    (pc = "dispatch" /\ ~DanglingOperator(tokens) /\ WordsOf(tokens) # <<>>) =>
        <<command>> \o parsed.argv = WordsOf(tokens)

(***************************************************************************)
(* C3: a line with an operator that no target follows (exit lines aside)   *)
(* gets a syntax error on the terminal's stderr, runs and opens nothing,   *)
(* and the loop goes on.  Fails when the operator is the first token.      *)
(***************************************************************************)
C3_DanglingOperatorRejected ==
    (tokens # <<>> /\ tokens[1] # W_exit /\ DanglingOperator(tokens)) =>
        /\ pc \in {"command", "parse", "prompt"}
        /\ NothingDone
        /\ pc = "prompt" =>
            /\ \E t \in RedirectionOperators : tty_err = <<SyntaxError(t)>>
            /\ tty_out = <<PromptText>>

(***************************************************************************)
(* C4: when the handling of a line is over, on every path, every redirect  *)
(* file is closed and sys.stdout and sys.stderr are the terminal's again.  *)
(* Fails: the second open() raising leaves the first file open.            *)
(***************************************************************************)
C4_FilesClosedStreamsRestored ==
    (Finished \/ pc = "read") =>
        open_files = {} /\ sys_stdout = "tty" /\ sys_stderr = "tty"

(***************************************************************************)
(* C5: a redirect target that cannot be opened is reported on the          *)
(* terminal's stderr, the command is not run, and the loop goes on.        *)
(* Fails: the OSError is caught nowhere.                                   *)
(***************************************************************************)
SomeTargetUnopenable ==
    \/ parsed.out_path # None /\ ~CanOpen(parsed.out_path)
    \/ parsed.err_path # None /\ ~CanOpen(parsed.err_path)

C5_OpenFailureHandledInLine ==
    (Finished /\ SomeTargetUnopenable) =>
        pc = "prompt" /\ ran = <<>> /\ tty_err # <<>>

(***************************************************************************)
(* The quoting state of section 4.1 after a prefix of a line, read one     *)
(* character at a time: normal, escaped (after an unquoted backslash),     *)
(* single, double, double_bs (after a backslash inside double quotes).     *)
(***************************************************************************)
QuoteStep(st, c) ==
    IF st = "escaped" THEN "normal"
    ELSE IF st = "normal"
    THEN IF c = BS THEN "escaped"
         ELSE IF c = SQ THEN "single"
         ELSE IF c = DQ THEN "double"
         ELSE "normal"
    ELSE IF st = "single" THEN (IF c = SQ THEN "normal" ELSE "single")
    ELSE IF st = "double"
    THEN IF c = DQ THEN "normal" ELSE IF c = BS THEN "double_bs" ELSE "double"
    ELSE "double"

RECURSIVE QuoteState(_)
QuoteState(prefix) ==
    IF prefix = <<>> THEN "normal"
    ELSE QuoteStep(QuoteState(SubSeq(prefix, 1, Len(prefix) - 1)), prefix[Len(prefix)])

InQuote(st) == st \in {"single", "double", "double_bs"}

QuoteOpenAtEnd(ln) == InQuote(QuoteState(ln))

(***************************************************************************)
(* C6: a line that ends inside a single or double quote yields no tokens;  *)
(* the loop prints the parse error on the terminal's stderr, runs, opens   *)
(* and writes nothing, and is at the next prompt.                          *)
(***************************************************************************)
C6_UnclosedQuoteRejected ==
    (line # <<>> /\ pc # "tokenize" /\ QuoteOpenAtEnd(line)) =>
        /\ pc = "prompt"
        /\ tokens = <<>>
        /\ tty_err = <<Msg("parse error: unclosed quote", <<>>)>>
        /\ tty_out = <<PromptText>>
        /\ NothingDone
        /\ open_files = {}

C6_Witness ==
    /\ pc = "prompt"
    /\ QuoteOpenAtEnd(line)
    /\ QuoteState(line) = "double"
    /\ Len(line) > 1
    /\ tty_err = <<Msg("parse error: unclosed quote", <<>>)>>

(***************************************************************************)
(* The last redirection of a stream among the tokens after the command     *)
(* word: its operator and its target.                                      *)
(***************************************************************************)
StdoutOperators == {<<">">>, <<"1", ">">>, <<">", ">">>, <<"1", ">", ">">>}

TruncateOperators == {<<">">>, <<"1", ">">>, <<"2", ">">>}

NoRedir == [op |-> <<>>, target |-> <<>>]

RECURSIVE LastRedir(_, _, _)
LastRedir(toks, ops, found) ==
    IF Len(toks) < 2 THEN found
    ELSE IF Head(toks) \in RedirectionOperators
    THEN LastRedir(Tail(Tail(toks)), ops,
                   IF Head(toks) \in ops
                   THEN [op |-> Head(toks), target |-> toks[2]]
                   ELSE found)
    ELSE LastRedir(Tail(toks), ops, found)

StdoutRedir == LastRedir(Tail(tokens), StdoutOperators, NoRedir)

StderrRedir ==
    LastRedir(Tail(tokens), RedirectionOperators \ StdoutOperators, NoRedir)

\* a builtin handler was run for the line, with its stdout redirected
BuiltinRanToFile ==
    /\ body = "handler"
    /\ ran # <<>>
    /\ tokens # <<>>
    /\ StdoutRedir # NoRedir

PriorContents(p) == IF p \in DOMAIN fs0 THEN fs0[p] ELSE <<>>

\* what the file must start with: nothing (truncate) or what it held
\* before the line (append)
KeptContents ==
    IF StdoutRedir.op \in TruncateOperators
    THEN <<>> ELSE PriorContents(StdoutRedir.target)

\* the file holds the handler's stdout output after the kept contents
StdoutFileAsClaimed ==
    /\ StdoutRedir.target \in DOMAIN fs
    /\ fs[StdoutRedir.target] = KeptContents \o handler(command, parsed.argv, fs).out

\* the same, counting what the handler wrote to stderr as its output too
AnyOutputFileAsClaimed ==
    LET eff == handler(command, parsed.argv, fs) IN
    /\ StdoutRedir.target \in DOMAIN fs
    /\ fs[StdoutRedir.target] \in {KeptContents \o eff.out, KeptContents \o eff.out \o eff.err}

(***************************************************************************)
(* C7 as stated: after a builtin run with > or 1> the file holds exactly   *)
(* the command's output, and after one run with >> or 1>> its prior        *)
(* contents followed by the command's output.  Fails when the same line    *)
(* sends stderr to that file too: `echo f >> f 2> f` truncates it.         *)
(***************************************************************************)
C7_AsStated == BuiltinRanToFile => AnyOutputFileAsClaimed

(***************************************************************************)
(* C7, amended: the same, for the lines that do not redirect stderr to the *)
(* file stdout is redirected to.                                           *)
(***************************************************************************)
C7_TruncateAndAppend ==
    (BuiltinRanToFile /\ StderrRedir.target # StdoutRedir.target) =>
        StdoutFileAsClaimed

C7_Witness ==
    /\ pc = "prompt"
    /\ BuiltinRanToFile
    /\ StderrRedir = NoRedir
    /\ StdoutRedir.op = <<">", ">">>
    /\ PriorContents(StdoutRedir.target) = <<Msg("", <<"f">>)>>
    /\ fs[StdoutRedir.target] = <<Msg("", <<"f">>), Msg("", <<"f", SP, "f">>)>>

(***************************************************************************)
(* Relating the tokens of a line to the tokens of its parts.               *)
(***************************************************************************)
\* the tokens of two parts of a line, one after the other
CatResults(r1, r2) ==
    IF r1.err # "" \/ r2.err # ""
    THEN [err |-> "unclosed quote", tokens |-> <<>>]
    ELSE [err |-> "", tokens |-> r1.tokens \o r2.tokens]

\* an ordinary character that no line of TokLines holds
MARK == "x"

\* the result r with the character c in the place of MARK
Unmark(r, c) ==
    [err |-> r.err,
     tokens |-> [j \in DOMAIN r.tokens |->
                    [m \in DOMAIN r.tokens[j] |->
                        IF r.tokens[j][m] = MARK THEN c ELSE r.tokens[j][m]]]]

Before(ln, k) == SubSeq(ln, 1, k - 1)

After(ln, k) == SubSeq(ln, k + 1, Len(ln))

StateBefore(ln, k) == QuoteState(Before(ln, k))

(***************************************************************************)
(* C8: outside quotes an unescaped whitespace character separates tokens   *)
(* and gives none itself - the tokens of the line are those of the part    *)
(* before it followed by those of the part after it, and one more          *)
(* whitespace next to it changes nothing; inside quotes it stays in its    *)
(* word, as an ordinary character would.                                   *)
(***************************************************************************)
C8_WhitespaceSeparatesOrIsKept ==
    t_out # NoResult =>
        \A k \in 1..Len(t_line) :
            IsSpace(t_line[k]) =>
                /\ StateBefore(t_line, k) = "normal" =>
                    /\ t_out = CatResults(tokenize_with_redirs(Before(t_line, k)),
                                          tokenize_with_redirs(After(t_line, k)))
                    /\ t_out = tokenize_with_redirs(
                                   Before(t_line, k) \o <<SP, t_line[k]>> \o After(t_line, k))
                /\ InQuote(StateBefore(t_line, k)) =>
                    t_out = Unmark(tokenize_with_redirs(
                                       Before(t_line, k) \o <<MARK>> \o After(t_line, k)),
                                   t_line[k])

C8_Witness ==
    /\ t_line = <<SQ, SP, SQ, SP, SP>>
    /\ t_out = [err |-> "", tokens |-> << <<SP>> >>]

(***************************************************************************)
(* C9: outside quotes an unescaped backslash and the character c after it  *)
(* give the word the character c and nothing else - as an ordinary         *)
(* character in that place would, the word going on; a backslash that ends *)
(* the line is the last character of the last word.                        *)
(***************************************************************************)
SpecialInNormal(c) == IsSpace(c) \/ c \in {SQ, DQ, BS, GT}

C9_BackslashEscapesNext ==
    t_out # NoResult =>
        \A k \in 1..Len(t_line) :
            (t_line[k] = BS /\ StateBefore(t_line, k) = "normal") =>
                IF k = Len(t_line)
                THEN t_out = Unmark(tokenize_with_redirs(Before(t_line, k) \o <<MARK>>), BS)
                ELSE LET c == t_line[k + 1]
                         rest == After(t_line, k + 1)
                     IN  IF SpecialInNormal(c)
                         THEN t_out = Unmark(tokenize_with_redirs(
                                                 Before(t_line, k) \o <<MARK>> \o rest), c)
                         ELSE t_out = tokenize_with_redirs(Before(t_line, k) \o <<c>> \o rest)

C9_Witness ==
    /\ t_line = <<"a", BS, SP, "a", BS>>
    /\ t_out = [err |-> "", tokens |-> << <<"a", SP, "a", BS>> >>]

(***************************************************************************)
(* C10: once a line whose command word - its first word that is neither an *)
(* operator nor an operator's target - is exit has been read, the session  *)
(* is over with nothing written beyond the prompt and nothing run, opened  *)
(* or changed, whatever else is on the line; end-of-input ends the session *)
(* in the same way; and a session that is over reads no further line.      *)
(* Fails: a redirection before the word exit is taken as the command.      *)
(***************************************************************************)
CommandWordIsExit ==
    WordsOf(tokens) # <<>> /\ Head(WordsOf(tokens)) = W_exit

SilentEnd ==
    /\ pc = "done"
    /\ tty_out = <<PromptText>>
    /\ tty_err = <<>>
    /\ NothingDone

C10_ExitEndsSession ==
    /\ (CommandWordIsExit /\ pc # "command") => SilentEnd
    /\ (pc = "done" /\ line = <<>>) => SilentEnd
    /\ pc = "done" => ~(ENABLED Next)

(***************************************************************************)
(* What the claims about completion speak of.                              *)
(***************************************************************************)
\* the word being completed is the first of the line
CommandPosition == \A k \in 1..begidx : IsSpace(rl_line[k])

PathPrefixes == {<<"/">>, <<".", "/">>, <<".", ".", "/">>, <<"~">>}

TextIsPathPrefix ==
    \E p \in PathPrefixes : Len(p) <= Len(text) /\ \A k \in 1..Len(p) : text[k] = p[k]

\* readline has got its None
CompletionOver == returned # <<>> /\ returned[Len(returned)] = None

\* the candidates returned so far
Got == SelectSeq(returned, LAMBDA c : c # None)

\* the builtin and snapshot names that start with the word
MatchingNames ==
    {n \in builtin_commands \cup path_exes :
        Len(text) <= Len(n) /\ \A k \in 1..Len(text) : n[k] = text[k]}

\* c is the name n with a backslash put before each of its spaces
RECURSIVE IsEscapeOf(_, _)
IsEscapeOf(c, n) ==
    IF n = <<>> THEN c = <<>>
    ELSE IF Head(n) = SP
    THEN Len(c) >= 2 /\ c[1] = BS /\ c[2] = SP /\ IsEscapeOf(Tail(Tail(c)), Tail(n))
    ELSE c # <<>> /\ Head(c) = Head(n) /\ IsEscapeOf(Tail(c), Tail(n))

NameOf(c) == CHOOSE n \in MatchingNames : IsEscapeOf(c, n)

WithSpace(c) == c \o <<SP>>

\* the calls return one candidate per attempt index, then None and no more
OnePerAttempt ==
    /\ state = Len(returned)
    /\ \A k \in 1..(Len(returned) - 1) : returned[k] # None
    /\ Len(Got) <= Cardinality(MatchingNames)
    /\ CompletionOver => Len(Got) = Cardinality(MatchingNames)

Marked(ln, k) == Before(ln, k) \o <<MARK>> \o After(ln, k)

UnmarkWord(w, c) == [m \in DOMAIN w |-> IF w[m] = MARK THEN c ELSE w[m]]

UnmarkParsed(r, c) ==
    [err |-> r.err,
     argv |-> [j \in DOMAIN r.argv |-> UnmarkWord(r.argv[j], c)],
     out_path |-> UnmarkWord(r.out_path, c), out_mode |-> r.out_mode,
     err_path |-> UnmarkWord(r.err_path, c), err_mode |-> r.err_mode]

\* the line's redirections have been resolved and the command is under way
PastParse ==
    pc \in {"dispatch", "with_enter", "with_body", "with_exit", "ext_open",
            "spawn", "ext_finally"}

SyntaxErrorPrinted ==
    \E m \in 1..Len(tty_err) : tty_err[m].msg = "syntax error near unexpected token"

\* the k-th character of the line is inside quotes or follows an unquoted backslash
Protected(ln, k) == InQuote(StateBefore(ln, k)) \/ StateBefore(ln, k) = "escaped"

(***************************************************************************)
(* C12: a `>` inside quotes or after an unquoted backslash is word text -   *)
(* the line's arguments and redirections are those of the line with an     *)
(* ordinary character in its place, that character being `>` again in the  *)
(* words; no syntax error is printed where that line has none.  Fails: the *)
(* tokens are plain strings, and a word that reads `>` is taken for the    *)
(* operator.                                                               *)
(***************************************************************************)
C12_ProtectedGtIsWordText ==
    \A k \in 1..Len(line) :
        (line[k] = GT /\ Protected(line, k)) =>
            LET alt == tokenize_with_redirs(Marked(line, k))
                r == parse_redirections(Tail(alt.tokens))
            IN  (alt.err = "" /\ alt.tokens # <<>> /\ r.err = None) =>
                    /\ ~SyntaxErrorPrinted
                    /\ PastParse => parsed = UnmarkParsed(r, GT)

(***************************************************************************)
(* The digits that stand right before the k-th character of a line, when   *)
(* they are a word of their own: plain digits that start the line or       *)
(* follow an unquoted space or an unquoted `>`.                            *)
(***************************************************************************)
RECURSIVE DigitsBefore(_, _)
DigitsBefore(ln, k) ==
    IF k > 1 /\ IsDigit(ln[k - 1]) /\ StateBefore(ln, k - 1) = "normal"
    THEN Append(DigitsBefore(ln, k - 1), ln[k - 1])
    ELSE <<>>

DigitWordBefore(ln, k) ==
    LET d == DigitsBefore(ln, k)
        s == k - Len(d)
    IN  IF s = 1 THEN d
        ELSE IF StateBefore(ln, s - 1) = "normal" /\ (IsSpace(ln[s - 1]) \/ ln[s - 1] = GT)
        THEN d
        ELSE <<>>

\* the line with a space in the place of the character before its k-th
Blanked(ln, k) == SubSeq(ln, 1, k - 2) \o <<SP>> \o SubSeq(ln, k, Len(ln))

(***************************************************************************)
(* C13: before an unquoted `>`, a digit word 1 or 2 is dropped from the    *)
(* words and names the stream of the operator - the tokens are those of    *)
(* the line with a space for the digit, the operator carrying it, and it   *)
(* sends stdout for 1 and stderr for 2 to the token after it; any other    *)
(* digit word stays a word and the `>` is the operator it would be after a *)
(* space.  Fails: a digit word other than 1 and 2 is glued to the operator *)
(* and the two make one ordinary word.                                     *)
(***************************************************************************)
C13_OnlyOneAndTwoAreFdPrefixes ==
    (t_out # NoResult /\ t_out.err = "") =>
        \A k \in 1..Len(t_line) :
            LET d == DigitWordBefore(t_line, k) IN
            (t_line[k] = GT /\ StateBefore(t_line, k) = "normal" /\ d # <<>>) =>
                IF d \in {<<"1">>, <<"2">>}
                THEN LET j == Len(tokenize_with_redirs(Before(t_line, k - 1)).tokens) + 1
                         bare == tokenize_with_redirs(Blanked(t_line, k)).tokens
                         p == parse_redirections(<<t_out.tokens[j], <<"f">>>>)
                     IN  /\ t_out.tokens = [bare EXCEPT ![j] = d \o @]
                         /\ p.argv = <<>>
                         /\ d = <<"1">> => p.out_path = <<"f">> /\ p.err_path = None
                         /\ d = <<"2">> => p.err_path = <<"f">> /\ p.out_path = None
                ELSE t_out = tokenize_with_redirs(Before(t_line, k) \o <<SP>>
                                                  \o SubSeq(t_line, k, Len(t_line)))

(***************************************************************************)
(* C14: a line that is not blank and yields no token (a pair of quotes     *)
(* with nothing inside) runs and opens nothing, writes nothing beyond the  *)
(* prompt, and leaves the loop at the next prompt.  Fails: tokens[0] of    *)
(* the empty list raises, and the session ends with a traceback.           *)
(***************************************************************************)
\* every character of the line opens or closes a quote or is an unquoted space
YieldsNoToken(ln) ==
    /\ ln # <<>>
    /\ ~QuoteOpenAtEnd(ln)
    /\ \A k \in 1..Len(ln) :
        LET st == StateBefore(ln, k)
            c == ln[k]
        IN  \/ st = "normal" /\ (IsSpace(c) \/ c \in {SQ, DQ})
            \/ st = "single" /\ c = SQ
            \/ st = "double" /\ c = DQ

C14_EmptyTokenListIsNoOp ==
    (YieldsNoToken(line) /\ pc \notin {"tokenize", "command"}) =>
        /\ pc = "prompt"
        /\ tty_out = <<PromptText>>
        /\ tty_err = <<>>
        /\ NothingDone

(***************************************************************************)
(* C15: inside double quotes a backslash and one of backslash, double      *)
(* quote, dollar, backquote, newline after it give the word that second    *)
(* character alone; a backslash before anything else, or at the end of the *)
(* line, is a backslash in the word, the next character being read as if   *)
(* no backslash had come; the double quotes that open and close are in no  *)
(* word - a double quote is in a word only when escaped or single-quoted.  *)
(***************************************************************************)
EscapableInDouble == {BS, DQ, "$", BQ, "\n"}

RECURSIVE CountIn(_, _)
CountIn(w, c) ==
    IF w = <<>> THEN 0 ELSE (IF Head(w) = c THEN 1 ELSE 0) + CountIn(Tail(w), c)

RECURSIVE CountInAll(_, _)
CountInAll(toks, c) ==
    IF toks = <<>> THEN 0 ELSE CountIn(Head(toks), c) + CountInAll(Tail(toks), c)

LiteralQuotes(ln) ==
    {k \in 1..Len(ln) :
        ln[k] = DQ /\ StateBefore(ln, k) \in {"escaped", "single", "double_bs"}}

C15_BackslashInDoubleQuotes ==
    t_out # NoResult =>
        /\ \A k \in 1..Len(t_line) :
               (t_line[k] = BS /\ StateBefore(t_line, k) = "double") =>
                   IF k < Len(t_line) /\ t_line[k + 1] \in EscapableInDouble
                   THEN t_out = Unmark(tokenize_with_redirs(
                                           Before(t_line, k) \o <<MARK>> \o After(t_line, k + 1)),
                                       t_line[k + 1])
                   ELSE t_out = Unmark(tokenize_with_redirs(Marked(t_line, k)), BS)
        /\ t_out.err = "" => CountInAll(t_out.tokens, DQ) = Cardinality(LiteralQuotes(t_line))

C15_Witness ==
    /\ t_line = <<DQ, BS, "$", "a", DQ>>
    /\ t_out = [err |-> "", tokens |-> << <<"$", "a">> >>]

(***************************************************************************)
(* The places of the operators among the tokens after the command word: a  *)
(* token that reads as an operator is one unless it is the target of the   *)
(* operator before it.                                                     *)
(***************************************************************************)
RECURSIVE OperatorPlaces(_, _)
OperatorPlaces(toks, i) ==
    IF i > Len(toks) THEN {}
    ELSE IF toks[i] \in RedirectionOperators
    THEN {i} \cup OperatorPlaces(toks, i + 2)
    ELSE OperatorPlaces(toks, i + 1)

StderrOperators == RedirectionOperators \ StdoutOperators

AppendOperators == RedirectionOperators \ TruncateOperators

PlacesOf(toks, ops) == {i \in OperatorPlaces(toks, 1) : toks[i] \in ops}

Greatest(S) == CHOOSE m \in S : \A n \in S : n <= m

\* the target and the mode the last operator of `ops` gives, none: no target, "w"
LastWins(toks, ops) ==
    LET P == PlacesOf(toks, ops) IN
    IF P = {} THEN <<None, "w">>
    ELSE <<toks[Greatest(P) + 1],
           IF toks[Greatest(P)] \in AppendOperators THEN "a" ELSE "w">>

\* the tokens without the operators of `ops` and their targets
RECURSIVE DropStream(_, _)
DropStream(toks, ops) ==
    IF toks = <<>> THEN <<>>
    ELSE IF Head(toks) \in RedirectionOperators /\ Len(toks) >= 2
    THEN (IF Head(toks) \in ops THEN <<>> ELSE <<toks[1], toks[2]>>)
         \o DropStream(Tail(Tail(toks)), ops)
    ELSE <<Head(toks)>> \o DropStream(Tail(toks), ops)

(***************************************************************************)
(* C16: the target and the mode resolved for a stream are those of the     *)
(* last operator of that stream on the line, and they are what they would  *)
(* be without the redirections of the other stream.                        *)
(***************************************************************************)
C16_LastRedirectionWins ==
    pc = "dispatch" =>
        LET raw == Tail(tokens)
            noErr == parse_redirections(DropStream(raw, StderrOperators))
            noOut == parse_redirections(DropStream(raw, StdoutOperators))
        IN  /\ <<parsed.out_path, parsed.out_mode>> = LastWins(raw, StdoutOperators)
            /\ <<parsed.err_path, parsed.err_mode>> = LastWins(raw, StderrOperators)
            /\ <<parsed.out_path, parsed.out_mode>> = <<noErr.out_path, noErr.out_mode>>
            /\ <<parsed.err_path, parsed.err_mode>> = <<noOut.err_path, noOut.err_mode>>

C16_Witness ==
    /\ pc = "dispatch"
    /\ Tail(tokens) = << <<">">>, <<"f">>, <<">", ">">>, <<"g">> >>
    /\ parsed.out_path = <<"g">>
    /\ parsed.out_mode = "a"
    /\ parsed.err_path = None

(***************************************************************************)
(* C17: at every offset of every line, _in_quotes reports an open quote    *)
(* exactly when the tokenizer fails with unclosed quote on the line up to  *)
(* that offset, and reports the single quote exactly when that quote is a  *)
(* single one - one more single quote then ends it - and the double quote  *)
(* otherwise; at the end of the line it reports an open quote exactly when *)
(* the tokenizer fails on the line.                                        *)
(***************************************************************************)
TokenizerOpen(prefix) == tokenize_with_redirs(prefix).err = "unclosed quote"

C17_InQuotesAgreesWithTokenizer ==
    t_out # NoResult =>
        /\ \A idx \in 0..Len(t_line) :
               LET prefix == SubSeq(t_line, 1, idx)
                   q == in_quotes(t_line, idx)
                   open == TokenizerOpen(prefix)
                   single == open /\ ~TokenizerOpen(prefix \o <<SQ>>)
               IN  /\ q[1] <=> open
                   /\ q = <<TRUE, SQ>> <=> single
                   /\ q = <<TRUE, DQ>> <=> (open /\ ~single)
                   /\ q = <<FALSE, None>> <=> ~open
        /\ in_quotes(t_line, Len(t_line))[1] <=> t_out.err = "unclosed quote"

C17_Witness ==
    /\ t_line = <<DQ, BS, DQ, SQ, "a">>
    /\ t_out = [err |-> "unclosed quote", tokens |-> <<>>]
    /\ in_quotes(t_line, 0) = <<FALSE, None>>
    /\ in_quotes(t_line, 5) = <<TRUE, DQ>>

(***************************************************************************)
(* C18: in command position, a sole candidate gets one trailing space      *)
(* exactly when it does not end in a path separator; a sole directory,     *)
(* which ends in `/`, is returned as it is.  Fails: the space is withheld  *)
(* from a candidate that ends in a space, not from one that ends in `/`.   *)
(***************************************************************************)
\* the candidates of the word, before the rule for a sole candidate
FoundForCommand ==
    IF TextIsPathPrefix
    THEN complete_paths(text, rl_line, begidx)
    ELSE PoolCandidates(text, rl_line, begidx)

EndsInSeparator(c) == c # <<>> /\ c[Len(c)] = "/"

C18_SoleCandidateTrailingSpace ==
    (pc = "completion" /\ CommandPosition /\ CompletionOver /\ Len(FoundForCommand) = 1) =>
        LET c == FoundForCommand[1] IN
        Got = <<IF EndsInSeparator(c) THEN c ELSE WithSpace(c)>>

(***************************************************************************)
(* C19: the tokens main() works on are those of the line as it was read -  *)
(* stripping the line first changes neither the tokens nor the             *)
(* unclosed-quote failure.  Fails: strip() removes a trailing space that a *)
(* backslash escapes, and the backslash is left to end the line.           *)
(***************************************************************************)
C19_StripKeepsTokens ==
    (pc \notin {"read", "tokenize"} /\ line # <<>>) =>
        LET raw == tokenize_with_redirs(t_line) IN
        IF raw.err # ""
        THEN tokens = <<>> /\ tty_err = <<Msg("parse error: unclosed quote", <<>>)>>
        ELSE tokens = raw.tokens

(***************************************************************************)
(* C20: a command that `type` reports as a shell builtin, exit aside, is   *)
(* run by a handler inside the shell: it is never looked up on the search  *)
(* path, never run as a child process, never reported as not found.        *)
(* Fails: ls is in the builtin names and has no handler.                   *)
(***************************************************************************)
ReportedAsBuiltin(name) == cmd_type(<<name>>).out = <<Msg("is a shell builtin", name)>>

C20_BuiltinsHaveHandlers ==
    (command # <<>> /\ command # W_exit /\ ReportedAsBuiltin(command)) =>
        /\ pc \notin {"ext_open", "spawn", "ext_finally"}
        /\ body \in {"", "handler"}
        /\ pc \in {"with_enter", "with_body", "with_exit"} => body = "handler"
        /\ \A k \in 1..Len(ran) : ran[k].kind = "builtin"

====
